---- MODULE Spec2Model ----
(***************************************************************************)
(* Email-Aggregator: the ingestion pipeline (IMAPService.processEmail),    *)
(* the classification client (AIService.categorizeEmail), the              *)
(* notification fanout (WebhookService.triggerInterestedWebhooks), the     *)
(* account sessions with their reconnect backoff (connectAccount,          *)
(* scheduleReconnect), the initial sync and the live mail handler.         *)
(*                                                                         *)
(* Every await of the TypeScript code is a point where other tasks run,    *)
(* so each asynchronous function is a small state machine: one action per  *)
(* stretch of code between two awaits.  The collaborators (index,          *)
(* classifier, HTTP destinations) answer nondeterministically.             *)
(***************************************************************************)
EXTENDS Integers, Sequences, FiniteSets, TLC

(* ------------------------------ bounds -------------------------------- *)

\* Number of processEmail runs (fetched messages) in one behaviour.
MaxPipelines == 2

\* Number of Imap transports the account creates in one behaviour, and the
\* largest configured maximum of reconnect attempts.
MaxTransports == 3
MaxAttempts == 3

\* Largest number of messages in INBOX when the initial sync starts, and
\* number of messages that arrive afterwards in one behaviour.
MaxInbox == 12
MaxArrivals == 2
MaxAddresses == 2

(* ----------------------------- environment ---------------------------- *)

\* The messages the mailboxes hold: the account and the Message-ID header as
\* a sequence of characters.  <<>> is an absent (or empty) header, " " is
\* white space; "x" with surrounding white space is the same identifier once
\* trimmed, and the same message may reach two accounts.
Message(a, raw) == [account |-> a, raw |-> raw]

Mailbox ==
    { Message("a1", <<"x">>), Message("a2", <<" ", "x">>), Message("a2", <<"y">>),
      Message("a1", <<>>), Message("a2", <<" ">>) }

(* ------------------------------ variables ----------------------------- *)

VARIABLES
    index,          \* Elasticsearch index: the set of stored documents
    pipelines,      \* the processEmail runs, in the order they were started
    aiConfigured,   \* AIService.categorizationModel is not null
    aiCall,         \* one call of categorizeEmail: its input, answer and result
    webhooks,       \* config.webhooks: slack, generic, interestedUrls
    answers,        \* how each destination answers a POST
    posts,          \* number of POSTs issued to each destination
    trigger,        \* the promise of triggerInterestedWebhooks
    slackTask,      \* the promise of sendSlackNotification
    genericTask,    \* the promise of sendGenericWebhook
    pending,        \* broadcast URLs whose postSafely has not settled
    results,        \* broadcast URLs whose postSafely returned true
    reported,       \* <<successCount, urls.length>> of the last log line
    caller,         \* the processEmail run awaiting the trigger
    config,         \* config.imap, and whether imap.connect() throws
    transports,     \* every Imap object created, with the events it has emitted
    connections,    \* IMAPService.connections: the account's latest transport
    connectionStatus,   \* IMAPService.connectionStatus: the account's entry
    reconnectAttempts,  \* IMAPService.reconnectAttempts: the account's counter
    timers,         \* the setTimeout timers of scheduleReconnect still pending
    exhausted,      \* scheduleReconnect has taken its early return
    event,          \* the handler that ran last, and the transport it belongs to
    inbox,          \* number of messages in INBOX: sequence numbers 1 .. inbox
    seenFlags,      \* the sequence numbers that carry the \Seen flag
    sync,           \* the promise of performInitialSync, step by step
    batch,          \* the sequence numbers the initial sync fetches
    ran,            \* the messages whose end handler has run, with the outcome
    idleMode,       \* startIdleMode has been called
    live,           \* live mode: searches in flight, messages that arrived
    watchdog,       \* the setInterval timers of startIdleMode, and the last NOOP
    backfill,       \* one POST /emails/categorization/backfill: its batch
    parsed,         \* the address headers of one parsed message, and its record
    app             \* the process with every configured account: bootstrap,
                    \* and IMAPService's three Maps keyed by account.id

fanoutVars ==
    <<webhooks, answers, posts, trigger, slackTask, genericTask, pending,
      results, reported, caller>>
\* What the fanout leaves alone.
sessionVars ==
    <<config, transports, connections, connectionStatus, reconnectAttempts,
      timers, exhausted, event>>
\* The state of IMAPService that the pipelines, the fanout and the classifier
\* leave alone.
mailVars == <<inbox, seenFlags, sync, batch, ran, idleMode, live>>
imapVars == <<sessionVars, mailVars, watchdog>>
\* What the fanout leaves alone.
restOfFanout == <<index, pipelines, aiConfigured, aiCall, imapVars, backfill, parsed, app>>
vars == <<index, pipelines, aiConfigured, aiCall, webhooks, answers, posts,
          trigger, slackTask, genericTask, pending, results, reported, caller,
          config, transports, connections, connectionStatus, reconnectAttempts,
          timers, exhausted, event, inbox, seenFlags, sync, batch, ran,
          idleMode, live, watchdog, backfill, parsed, app>>

(* --------------------------- String.prototype.trim -------------------- *)

RECURSIVE trimStart(_)
trimStart(s) ==
    IF s # <<>> /\ Head(s) = " " THEN trimStart(Tail(s)) ELSE s

RECURSIVE trimEnd(_)
trimEnd(s) ==
    IF s # <<>> /\ s[Len(s)] = " " THEN trimEnd(SubSeq(s, 1, Len(s) - 1)) ELSE s

trim(s) == trimEnd(trimStart(s))

\* uuidv4(): a fresh identifier for the p-th run; never equal to a header.
uuidv4(p) == <<"#", ToString(p)>>

(* ----------------- AIService.categorizeEmail (part_000) --------------- *)

\* The six categories, defined once.
validCategories ==
    {"Interested", "Meeting Booked", "Not Interested", "Spam", "Out of Office",
     "Uncategorized"}

\* JavaScript values a parsed JSON field can hold.
Undefined == [t |-> "undefined", v |-> ""]
Null == [t |-> "null", v |-> ""]
Num(n) == [t |-> "number", v |-> n]
Str(s) == [t |-> "string", v |-> s]

\* What the classification collaborator does with one generateContent call:
\*   throw / timeout   the call rejects (API error, network error, timeout)
\*   invalid           response.text() is not JSON
\*   null              response.text() is the JSON text null
\*   object            response.text() is a JSON object; category is its
\*                     category field (Undefined when the field is missing)
Response(kind, category) == [kind |-> kind, category |-> category]

CategoryValues ==
    {Str(c) : c \in validCategories}
        \cup {Str("Other"), Str("interested"), Str(""), Num("7"), Null, Undefined}

Responses ==
    {Response(k, Undefined) : k \in {"throw", "timeout", "invalid", "null"}}
        \cup {Response("object", c) : c \in CategoryValues}

\* The answers the pipelines below draw from: every kind of failure, and of
\* the objects the ones the pipeline can tell apart (Interested, another valid
\* category, a category outside the set, no category).
PipelineResponses ==
    {r \in Responses :
        r.kind = "object" =>
            r.category \in {Str("Interested"), Str("Spam"), Str("Other"), Undefined}}

\* The collaborator failed (the call threw or timed out).
CollaboratorFailed(resp) == resp.kind \in {"throw", "timeout"}

\* JSON.parse(response.text()): throws on text that is not JSON.
JSONparse(resp) ==
    CASE resp.kind = "invalid" -> [threw |-> TRUE, isNull |-> FALSE, category |-> Undefined]
      [] resp.kind = "null" -> [threw |-> FALSE, isNull |-> TRUE, category |-> Undefined]
      [] OTHER -> [threw |-> FALSE, isNull |-> FALSE, category |-> resp.category]

\* JavaScript truthiness of a value.
Truthy(val) ==
    \/ val.t = "string" /\ val.v # ""
    \/ val.t = "number" /\ val.v # "0"

\* Mutant of includes: the validation against the fixed set is left out.
includesLoose(set, val) == TRUE

\* validCategories.includes(category): strict equality with a member.
includes(set, val) == val.t = "string" /\ val.v \in set

\* The email handed to categorizeEmail, as far as the code looks at it: its
\* body is a string of some length, or (from an untyped caller) no string.
Body(len) == [isString |-> TRUE, len |-> len]
NotAString == [isString |-> FALSE, len |-> 0]

\* The body of the try block: the prompt (email.body.substring throws on a
\* body that is no string), generateContent, response.text(), JSON.parse,
\* the read of .category and the validation.
tryCategorize(body, resp) ==
    IF ~body.isString \/ CollaboratorFailed(resp)
    THEN [threw |-> TRUE, category |-> "Uncategorized"]
    ELSE LET jsonResponse == JSONparse(resp) IN
         IF jsonResponse.threw \/ jsonResponse.isNull
         THEN [threw |-> TRUE, category |-> "Uncategorized"]
         ELSE LET category == jsonResponse.category IN
              IF Truthy(category) /\ includes(validCategories, category)
              THEN [threw |-> FALSE, category |-> category.v]
              ELSE [threw |-> FALSE, category |-> "Uncategorized"]

\* categorizeEmail: [threw, category].  threw is what the caller sees.
categorizeEmail(configured, body, resp) ==
    IF ~configured
    THEN [threw |-> FALSE, category |-> "Uncategorized"]
    ELSE LET attempt == tryCategorize(body, resp) IN
         IF attempt.threw
         THEN [threw |-> FALSE, category |-> "Uncategorized"]
         ELSE attempt

(* --------------- ElasticsearchService (the durable index) ------------- *)

\* findByMessageId: the hits of the term query; a failed search is caught and
\* answered as null (no hit).
findByMessageId(idx, messageId, searchOk) ==
    IF searchOk THEN {d \in idx : d.messageId = messageId} ELSE {}

existsByMessageId(idx, messageId, searchOk) ==
    findByMessageId(idx, messageId, searchOk) # {}

\* indexEmail: store the document under its id.
indexEmail(idx, doc) == {d \in idx : d.id # doc.id} \cup {doc}

\* updateEmailCategory: partial update of aiCategory of the document emailId.
updateEmailCategory(idx, emailId, category) ==
    {IF d.id = emailId THEN [d EXCEPT !.aiCategory = category] ELSE d : d \in idx}

(* ---------------------- WebhookService (part_001) --------------------- *)

\* Bound on the length of config.webhooks.interestedUrls.
MaxUrls == 2

SlackUrl == "s"
GenericUrl == "g"
Urls == {SlackUrl, GenericUrl, "u1", "u2"}

\* What a destination does with a POST: 2xx, an error status or a network
\* error, 429, or no answer within the timeout.
Outcomes == {"ok", "error", "rate-limit", "timeout"}

\* WEBHOOK_INTERESTED_URLS split at commas: entries may be empty, repeated,
\* or the generic URL itself.
RECURSIVE SeqsUpTo(_, _)
SeqsUpTo(S, n) ==
    IF n = 0 THEN {<<>>}
    ELSE LET shorter == SeqsUpTo(S, n - 1) IN
         shorter \cup {Append(q, x) : q \in shorter, x \in S}

Range(q) == {q[i] : i \in 1 .. Len(q)}

WebhookConfigs ==
    [slack : {"", SlackUrl},
     generic : {"", GenericUrl},
     interestedUrls : SeqsUpTo({"", GenericUrl, "u1", "u2"}, MaxUrls)]

\* The configured destinations: the Slack URL, the generic URL and each
\* non-empty entry of interestedUrls.
ConfiguredDests(cfg) ==
    ({cfg.slack, cfg.generic} \cup Range(cfg.interestedUrls)) \ {""}

\* Mutant of postSafely: the catch rethrows instead of returning false.
postSafelyRethrow(outcome) == IF outcome = "ok" THEN "true" ELSE "throw"

\* postSafely: true on success, false on 429 and on every other error; it
\* never throws.
postSafely(outcome) == IF outcome = "ok" THEN "true" ELSE "false"

\* urlsSet: the generic URL plus interestedUrls.filter(Boolean), as a Set,
\* with the primary (already attempted) deleted.
broadcastUrls(cfg) ==
    (({cfg.generic} \ {""}) \cup {u \in Range(cfg.interestedUrls) : u # ""})
        \ {cfg.generic}

\* Mutant of triggerOutcome: no try/catch around Promise.all.
triggerOutcomeRethrow(allRejected) == IF allRejected THEN "rejected" ELSE "resolved"

\* try { await Promise.all(promises) } catch { log }: the caller sees the
\* promise resolve whether or not Promise.all rejected.
triggerOutcome(allRejected) == "resolved"

\* Promise.all over the started tasks: rejected with the first rejection,
\* resolved when every started task has resolved.
PromiseAll(slackSt, genericSt) ==
    IF slackSt = "rejected" \/ genericSt = "rejected" THEN "rejected"
    ELSE IF slackSt \in {"none", "resolved"} /\ genericSt \in {"none", "resolved"}
         THEN "resolved"
         ELSE "pending"

\* The promise of triggerInterestedWebhooks after a task changed state.
settle(trig, slackSt, genericSt) ==
    IF trig = "awaiting" /\ PromiseAll(slackSt, genericSt) # "pending"
    THEN triggerOutcome(PromiseAll(slackSt, genericSt) = "rejected")
    ELSE trig

\* triggerInterestedWebhooks up to its await: both tasks are started and each
\* issues its first POST at once.
Trigger ==
    /\ trigger = "idle"
    /\ LET slackSt == IF webhooks.slack # "" THEN "posting" ELSE "none"
           genericSt == IF webhooks.generic # "" THEN "primary" ELSE "none"
       IN  /\ slackTask' = slackSt
           /\ genericTask' = genericSt
           /\ posts' = [u \in Urls |->
                   posts[u] + (IF slackSt = "posting" /\ u = webhooks.slack THEN 1 ELSE 0)
                            + (IF genericSt = "primary" /\ u = webhooks.generic THEN 1 ELSE 0)]
           /\ trigger' = settle("awaiting", slackSt, genericSt)
    /\ caller' = "awaiting"
    /\ UNCHANGED <<webhooks, answers, pending, results, reported, restOfFanout>>

\* sendSlackNotification after its axios.post: an error is logged and rethrown.
SlackResponse ==
    /\ slackTask = "posting"
    /\ slackTask' = IF answers[webhooks.slack] = "ok" THEN "resolved" ELSE "rejected"
    /\ trigger' = settle(trigger, slackTask', genericTask)
    /\ UNCHANGED <<webhooks, answers, posts, genericTask, pending, results,
                   reported, caller, restOfFanout>>

\* sendGenericWebhook after the POST to the primary URL: the broadcast to the
\* remaining URLs is issued, whatever the primary answered.
PrimaryResponse ==
    /\ genericTask = "primary"
    /\ LET okPrimary == postSafely(answers[webhooks.generic])
           urls == broadcastUrls(webhooks)
       IN  IF okPrimary = "throw"
           THEN /\ genericTask' = "rejected"
                /\ UNCHANGED <<posts, pending>>
           ELSE IF urls = {}
           THEN /\ genericTask' = "resolved"
                /\ UNCHANGED <<posts, pending>>
           ELSE /\ genericTask' = "broadcast"
                /\ posts' = [u \in Urls |-> posts[u] + (IF u \in urls THEN 1 ELSE 0)]
                /\ pending' = urls
    /\ trigger' = settle(trigger, slackTask, genericTask')
    /\ UNCHANGED <<webhooks, answers, slackTask, results, reported, caller,
                   restOfFanout>>

\* One postSafely of the broadcast settles; after the last one the success
\* count is logged.
BroadcastResponse(u) ==
    /\ genericTask = "broadcast"
    /\ u \in pending
    /\ LET ok == postSafely(answers[u])
           urls == broadcastUrls(webhooks)
       IN  /\ pending' = pending \ {u}
           /\ results' = IF ok = "true" THEN results \cup {u} ELSE results
           /\ IF ok = "throw"
              THEN /\ genericTask' = "rejected"
                   /\ reported' = reported
              ELSE IF pending' = {}
              THEN /\ genericTask' = "resolved"
                   /\ reported' = <<Cardinality(results'), Cardinality(urls)>>
              ELSE /\ genericTask' = genericTask
                   /\ reported' = reported
    /\ trigger' = settle(trigger, slackTask, genericTask')
    /\ UNCHANGED <<webhooks, answers, posts, slackTask, caller, restOfFanout>>

\* processEmail resumes after await triggerInterestedWebhooks(emailDoc): the
\* log line on success, the catch of processEmail on a rejection.
CallerResumes ==
    /\ caller = "awaiting"
    /\ trigger \in {"resolved", "rejected"}
    /\ caller' = IF trigger = "resolved" THEN "completed" ELSE "caught"
    /\ UNCHANGED <<webhooks, answers, posts, trigger, slackTask, genericTask,
                   pending, results, reported, restOfFanout>>

\* No task of the fanout has anything left to do.
FanoutQuiescent ==
    /\ caller \in {"completed", "caught"}
    /\ slackTask \in {"none", "resolved", "rejected"}
    /\ genericTask \in {"none", "resolved", "rejected"}

(* -------------------- IMAPService.processEmail ------------------------ *)

\* Mutant of shouldTrigger: every categorized message notifies.
shouldTriggerCategorized(category) == category # "Uncategorized"

\* if (categorization.category === "Interested")
shouldTrigger(category) == category = "Interested"

\* Mutant of emailDoc: the document is inserted without the default category.
emailDocNoCategory(p) ==
    [id |-> uuidv4(p),
     accountId |-> pipelines[p].account,
     aiCategory |-> "",
     messageId |-> IF trim(pipelines[p].raw) # <<>>
                   THEN trim(pipelines[p].raw) ELSE uuidv4(p)]

emailDocRawId(p) ==
    [id |-> uuidv4(p),
     accountId |-> pipelines[p].account,
     aiCategory |-> "Uncategorized",
     messageId |-> trim(pipelines[p].raw)]

\* The document processEmail builds for run p (emailDoc).
emailDoc(p) ==
    LET run == pipelines[p]
        rawMessageId == trim(run.raw)
        emailId == uuidv4(p)
    IN  [id |-> emailId,
         accountId |-> run.account,
         aiCategory |-> "Uncategorized",
         messageId |-> IF rawMessageId # <<>> THEN rawMessageId ELSE emailId]

\* The stored document of run p, if any.
storedDoc(p) == {d \in index : d.id = uuidv4(p)}

\* fetch.on("message") / msg.once("end"): a fetched message is parsed and
\* handed to processEmail, which runs up to its first await.
FetchMessage(msg, parseOk) ==
    /\ Len(pipelines) < MaxPipelines
    /\ LET rawMessageId == trim(msg.raw) IN
       pipelines' = Append(pipelines,
            [account |-> msg.account,
             raw |-> msg.raw,
             pc |-> IF ~parseOk THEN "parse_error"
                    ELSE IF rawMessageId # <<>> THEN "lookup" ELSE "insert",
             category |-> "Uncategorized",
             present |-> parseOk /\ rawMessageId # <<>>
                          /\ \E d \in index : d.messageId = rawMessageId,
             inserted |-> FALSE,
             outcome |-> "none",
             updated |-> FALSE,
             fanned |-> FALSE])
    /\ UNCHANGED <<index, aiConfigured, aiCall, fanoutVars, imapVars, backfill, parsed, app>>

LookupThenClassify(p, searchOk) ==
    /\ pipelines[p].pc = "lookup"
    /\ LET exists == existsByMessageId(index, trim(pipelines[p].raw), searchOk) IN
       pipelines' = [pipelines EXCEPT ![p].pc = IF exists THEN "skipped" ELSE "classify"]
    /\ UNCHANGED <<index, aiConfigured, aiCall, fanoutVars, imapVars, backfill, parsed, app>>

\* await ElasticsearchService.existsByMessageId(rawMessageId)
Lookup(p, searchOk) ==
    /\ pipelines[p].pc = "lookup"
    /\ LET exists == existsByMessageId(index, trim(pipelines[p].raw), searchOk) IN
       pipelines' = [pipelines EXCEPT ![p].pc = IF exists THEN "skipped" ELSE "insert"]
    /\ UNCHANGED <<index, aiConfigured, aiCall, fanoutVars, imapVars, backfill, parsed, app>>

\* await ElasticsearchService.indexEmail(emailDoc)
Insert(p, ok) ==
    /\ pipelines[p].pc = "insert"
    /\ IF ok
       THEN /\ index' = indexEmail(index, emailDoc(p))
            /\ pipelines' = [pipelines EXCEPT ![p].pc = "classify",
                                              ![p].inserted = TRUE]
       ELSE /\ index' = index
            /\ pipelines' = [pipelines EXCEPT ![p].pc = "failed"]
    /\ UNCHANGED <<aiConfigured, aiCall, fanoutVars, imapVars, backfill, parsed, app>>

\* await AIService.categorizeEmail({subject, body, from})
Classify(p, resp) ==
    /\ pipelines[p].pc = "classify"
    /\ LET categorization == categorizeEmail(aiConfigured, Body(0), resp) IN
       pipelines' = [pipelines EXCEPT
            ![p].pc = IF categorization.threw THEN "failed" ELSE "update",
            ![p].category = categorization.category,
            ![p].outcome = IF ~aiConfigured THEN "unconfigured"
                           ELSE IF CollaboratorFailed(resp) THEN "failed"
                           ELSE "answered"]
    /\ UNCHANGED <<index, aiConfigured, aiCall, fanoutVars, imapVars, backfill, parsed, app>>

\* await ElasticsearchService.updateEmailCategory(emailId, category), then
\* the trigger of the webhooks when the category is Interested.
UpdateCategory(p, ok) ==
    /\ pipelines[p].pc = "update"
    /\ IF ok /\ storedDoc(p) # {}
       THEN /\ index' = updateEmailCategory(index, uuidv4(p), pipelines[p].category)
            /\ pipelines' = [pipelines EXCEPT
                    ![p].updated = TRUE,
                    ![p].fanned = shouldTrigger(pipelines[p].category),
                    ![p].pc = IF shouldTrigger(pipelines[p].category)
                              THEN "notify" ELSE "done"]
       ELSE /\ index' = index
            /\ pipelines' = [pipelines EXCEPT ![p].pc = "failed"]
    /\ UNCHANGED <<aiConfigured, aiCall, fanoutVars, imapVars, backfill, parsed, app>>

\* await WebhookService.triggerInterestedWebhooks(emailDoc) settles.
Notified(p, allRejected) ==
    /\ pipelines[p].pc = "notify"
    /\ pipelines' = [pipelines EXCEPT
            ![p].pc = IF triggerOutcome(allRejected) = "resolved"
                      THEN "done" ELSE "failed"]
    /\ UNCHANGED <<index, aiConfigured, aiCall, fanoutVars, imapVars, backfill, parsed, app>>

Runs == 1 .. Len(pipelines)

\* The fanout and the single classifier call at rest.
FanoutIdle ==
    /\ webhooks = [slack |-> "", generic |-> "", interestedUrls |-> <<>>]
    /\ answers = [u \in Urls |-> "ok"]
    /\ posts = [u \in Urls |-> 0]
    /\ trigger = "idle"
    /\ slackTask = "none"
    /\ genericTask = "none"
    /\ pending = {}
    /\ results = {}
    /\ reported = <<>>
    /\ caller = "idle"

NoCall == [st |-> "idle", body |-> Body(0), promptLen |-> 0,
           resp |-> Response("throw", Undefined), category |-> ""]

\* config.imap as the environment leaves it: the defaults of the parseInt calls.
maxReconnectAttemptsDefault == 10
reconnectDelayDefault == 5000

\* IMAPService right after construction: three empty Maps, no transport, no
\* timer. connectThrows says whether imap.connect() throws for this account.
NoStatus == [known |-> FALSE, connected |-> FALSE, error |-> ""]
NoEvent == [kind |-> "none", transport |-> 0]
Constructed(cfg) ==
    /\ config = cfg
    /\ transports = <<>>
    /\ connections = 0
    /\ connectionStatus = NoStatus
    /\ reconnectAttempts = 0
    /\ timers = <<>>
    /\ exhausted = FALSE
    /\ event = NoEvent

DefaultConfig ==
    [maxReconnectAttempts |-> maxReconnectAttemptsDefault,
     reconnectDelay |-> reconnectDelayDefault, connectThrows |-> FALSE]

\* No account is configured: initializeAccounts has nothing to connect.
SessionIdle == Constructed(DefaultConfig)

\* No transport is ready: no mailbox is open and nothing has been fetched.
NoLive == [searches |-> 0, arrived |-> {}, searchFailed |-> FALSE]
\* startIdleMode has not been called: no interval is armed, no NOOP was sent.
NoWatchdog == [armed |-> {}, noop |-> [transport |-> 0, result |-> "none"]]

\* No backfill request is being served.
NoBackfill == [st |-> "idle", batch |-> {}]

\* The address headers of a message: a header is absent, one AddressObject
\* (its value a list of entries), or an array of AddressObjects when the
\* header occurs more than once.  An entry's address is a string, possibly
\* empty, or missing (a group such as "undisclosed-recipients:;").
NoField == [kind |-> "undefined", items |-> <<>>]
AddressObject(value) == [kind |-> "object", items |-> <<value>>]
AddressObjects(values) == [kind |-> "array", items |-> values]
NoHeaders ==
    [st |-> "none", from |-> NoField, to |-> NoField, cc |-> NoField,
     doc |-> [from |-> "", to |-> <<>>, cc |-> <<>>]]

\* The accounts config.emailAccounts can name.
AccountIds == {"a1", "a2"}

\* The process before bootstrap() has run, with no account configured.
NotStarted(accounts) ==
    [emailAccounts |-> accounts,
     boot |-> "starting",
     transports |-> [a \in AccountIds |-> <<>>],
     connections |-> [a \in AccountIds |-> 0],
     connectionStatus |-> [a \in AccountIds |-> NoStatus],
     reconnectAttempts |-> [a \in AccountIds |-> 0],
     timers |-> [a \in AccountIds |-> 0],
     processed |-> [a \in AccountIds |-> 0],
     event |-> [kind |-> "none", account |-> ""]]
NoApp == NotStarted(<<>>)

MailIdle ==
    /\ app = NoApp
    /\ parsed = NoHeaders
    /\ backfill = NoBackfill
    /\ watchdog = NoWatchdog
    /\ inbox = 0
    /\ seenFlags = {}
    /\ sync = "idle"
    /\ batch = {}
    /\ ran = {}
    /\ idleMode = FALSE
    /\ live = NoLive

ImapIdle == SessionIdle /\ MailIdle

(* ---------------- the ingestion pipelines and the index --------------- *)

Init ==
    /\ index = {}
    /\ pipelines = <<>>
    /\ aiConfigured \in BOOLEAN
    /\ aiCall = NoCall
    /\ FanoutIdle
    /\ ImapIdle

Next ==
    \/ \E msg \in Mailbox, parseOk \in BOOLEAN : FetchMessage(msg, parseOk)
    \/ \E p \in Runs, searchOk \in BOOLEAN : Lookup(p, searchOk)
    \/ \E p \in Runs, ok \in BOOLEAN : Insert(p, ok)
    \/ \E p \in Runs, resp \in PipelineResponses : Classify(p, resp)
    \/ \E p \in Runs, ok \in BOOLEAN : UpdateCategory(p, ok)
    \/ \E p \in Runs, allRejected \in BOOLEAN : Notified(p, allRejected)

Spec == Init /\ [][Next]_vars

(* ------------------ processEmail: the address fields ------------------ *)

RECURSIVE Flatten(_)
Flatten(qs) == IF qs = <<>> THEN <<>> ELSE Head(qs) \o Flatten(Tail(qs))

\* v.address || ""
addressOrEmpty(v) == IF Truthy(v) THEN v.v ELSE ""

\* getAddresses(field)
getAddresses(field) ==
    IF field.kind = "undefined" THEN <<>>
    ELSE IF field.kind = "array"
    THEN Flatten([i \in 1 .. Len(field.items) |->
                    [j \in 1 .. Len(field.items[i]) |->
                        addressOrEmpty(field.items[i][j])]])
    ELSE [j \in 1 .. Len(field.items[1]) |-> addressOrEmpty(field.items[1][j])]

\* fromText, toText and ccText, and the three fields of emailDoc they fill:
\* cc is left out of the document when it is absent or empty.
Normalize ==
    /\ parsed.st = "parsed"
    /\ LET fromList == getAddresses(parsed.from)
           fromText == IF parsed.from.kind # "undefined" /\ fromList # <<>>
                          /\ fromList[1] # ""
                       THEN fromList[1] ELSE ""
           toText == getAddresses(parsed.to)
           ccText == IF parsed.cc.kind # "undefined"
                     THEN getAddresses(parsed.cc) ELSE <<>>
       IN parsed' = [parsed EXCEPT !.st = "normalized",
                        !.doc = [from |-> fromText, to |-> toText, cc |-> ccText]]
    /\ UNCHANGED <<index, pipelines, aiConfigured, aiCall, fanoutVars, imapVars,
                   backfill, app>>

\* The entries and headers mailparser can hand over.
AddressEntries == {Str("a@x"), Str(""), Undefined}
AddressLists == SeqsUpTo(AddressEntries, MaxAddresses)
AddressFields ==
    {NoField} \cup {AddressObject(v) : v \in AddressLists}
        \cup {AddressObjects(<<v, w>>) : v, w \in SeqsUpTo(AddressEntries, 1)}

AddressInit ==
    /\ index = {}
    /\ pipelines = <<>>
    /\ aiConfigured = TRUE
    /\ aiCall = NoCall
    /\ FanoutIdle
    /\ SessionIdle
    /\ watchdog = NoWatchdog
    /\ backfill = NoBackfill
    /\ app = NoApp
    /\ inbox = 0 /\ seenFlags = {} /\ sync = "idle" /\ batch = {} /\ ran = {}
    /\ idleMode = FALSE /\ live = NoLive
    /\ \E f \in {NoField} \cup {AddressObject(v) : v \in AddressLists},
          t \in AddressFields, c \in AddressFields :
          parsed = [NoHeaders EXCEPT !.st = "parsed", !.from = f, !.to = t, !.cc = c]

AddressNext ==
    \/ Normalize

SpecAddresses == AddressInit /\ [][AddressNext]_vars

(* ------------- EmailController.backfillCategorization ---------------- *)

\* findUncategorized(limit): the documents whose aiCategory is Uncategorized;
\* a failed search is caught and answered as the empty list.
findUncategorized(idx, searchOk) ==
    IF searchOk THEN {d \in idx : d.aiCategory = "Uncategorized"} ELSE {}

\* POST /emails/categorization/backfill: the batch is read from the index.
BackfillCategorization(searchOk) ==
    /\ backfill.st = "idle"
    /\ backfill' = [st |-> "running",
                    batch |-> {d.id : d \in findUncategorized(index, searchOk)}]
    /\ UNCHANGED <<index, pipelines, aiConfigured, aiCall, fanoutVars, imapVars,
                   parsed, app>>

\* One iteration of the loop over the batch: categorizeEmail, then
\* updateEmailCategory(email.id, cat.category); a failed update is counted
\* and the loop goes on.
BackfillEmail(emailId, resp, ok) ==
    /\ backfill.st = "running"
    /\ emailId \in backfill.batch
    /\ LET cat == categorizeEmail(aiConfigured, Body(0), resp) IN
       index' = IF ok THEN updateEmailCategory(index, emailId, cat.category)
                ELSE index
    /\ backfill' = [backfill EXCEPT !.batch = @ \ {emailId}]
    /\ UNCHANGED <<pipelines, aiConfigured, aiCall, fanoutVars, imapVars, parsed, app>>

\* res.json(...): the request is answered.
BackfillResponds ==
    /\ backfill.st = "running"
    /\ backfill.batch = {}
    /\ backfill' = NoBackfill
    /\ UNCHANGED <<index, pipelines, aiConfigured, aiCall, fanoutVars, imapVars,
                   parsed, app>>

\* The pipelines together with the backfill endpoint.
BackfillNext ==
    \/ \E msg \in Mailbox, parseOk \in BOOLEAN : FetchMessage(msg, parseOk)
    \/ \E p \in Runs, searchOk \in BOOLEAN : Lookup(p, searchOk)
    \/ \E p \in Runs, ok \in BOOLEAN : Insert(p, ok)
    \/ \E p \in Runs, resp \in PipelineResponses : Classify(p, resp)
    \/ \E p \in Runs, ok \in BOOLEAN : UpdateCategory(p, ok)
    \/ \E p \in Runs, allRejected \in BOOLEAN : Notified(p, allRejected)
    \/ \E searchOk \in BOOLEAN : BackfillCategorization(searchOk)
    \/ \E d \in index, resp \in PipelineResponses, ok \in BOOLEAN :
          BackfillEmail(d.id, resp, ok)
    \/ BackfillResponds

SpecBackfill == Init /\ [][BackfillNext]_vars

(* ------------------- one fanout, from trigger to rest ----------------- *)

\* Every configuration, and every way the configured destinations answer.
FanoutInit ==
    /\ index = {}
    /\ pipelines = <<>>
    /\ aiConfigured = TRUE
    /\ aiCall = NoCall
    /\ webhooks \in WebhookConfigs
    /\ answers \in [Urls -> Outcomes]
    /\ \A u \in Urls \ ConfiguredDests(webhooks) : answers[u] = "ok"
    /\ posts = [u \in Urls |-> 0]
    /\ trigger = "idle"
    /\ slackTask = "none"
    /\ genericTask = "none"
    /\ pending = {}
    /\ results = {}
    /\ reported = <<>>
    /\ caller = "idle"
    /\ ImapIdle

FanoutNext ==
    \/ Trigger
    \/ SlackResponse
    \/ PrimaryResponse
    \/ \E u \in Urls : BroadcastResponse(u)
    \/ CallerResumes

SpecFanout == FanoutInit /\ [][FanoutNext]_vars

(* ------------------- categorizeEmail, call by call -------------------- *)

\* email.body.substring(0, 4000)
BodyCap == 4000
substring(len, cap) == IF len > cap THEN cap ELSE len

\* The bodies passed in: around the cap, and one that is no string.
Bodies == {Body(n) : n \in {0, BodyCap - 1, BodyCap, BodyCap + 1}} \cup {NotAString}

\* categorizeEmail is called: without a model it returns at once, otherwise
\* the prompt goes to the collaborator, which answers with resp.
CategorizeCall(body, resp) ==
    /\ aiCall.st # "called"
    /\ aiCall' = [st |-> "called", body |-> body,
                  promptLen |-> IF aiConfigured /\ body.isString
                                THEN substring(body.len, BodyCap) ELSE 0,
                  resp |-> resp, category |-> ""]
    /\ UNCHANGED <<aiConfigured, index, pipelines, fanoutVars, imapVars, backfill, parsed, app>>

\* The call settles.
CategorizeReturn ==
    /\ aiCall.st = "called"
    /\ LET r == categorizeEmail(aiConfigured, aiCall.body, aiCall.resp) IN
       aiCall' = [aiCall EXCEPT !.st = IF r.threw THEN "threw" ELSE "returned",
                                !.category = r.category]
    /\ UNCHANGED <<aiConfigured, index, pipelines, fanoutVars, imapVars, backfill, parsed, app>>

ClassifierInit ==
    /\ index = {}
    /\ pipelines = <<>>
    /\ aiConfigured \in BOOLEAN
    /\ aiCall = NoCall
    /\ FanoutIdle
    /\ ImapIdle

ClassifierNext ==
    \/ \E body \in Bodies, resp \in Responses : CategorizeCall(body, resp)
    \/ CategorizeReturn

SpecClassifier == ClassifierInit /\ [][ClassifierNext]_vars

(* ------------- IMAPService: connect, events, reconnect ---------------- *)

\* What a session step leaves alone.
restOfSession ==
    <<index, pipelines, aiConfigured, aiCall, fanoutVars, mailVars, watchdog,
      backfill, parsed, app>>

\* Math.pow(2, attempts) and Math.min, on the integers a delay can be.
RECURSIVE Mathpow(_, _)
Mathpow(b, e) == IF e = 0 THEN 1 ELSE b * Mathpow(b, e - 1)
Mathmin(a, b) == IF a < b THEN a ELSE b

\* The cap written into scheduleReconnect.
maxDelay == 60000

delayUncapped(reconnectDelay, attempts) == reconnectDelay * Mathpow(2, attempts)

\* const delay = Math.min(config.imap.reconnectDelay * Math.pow(2, attempts), 60000)
delay(reconnectDelay, attempts) ==
    Mathmin(reconnectDelay * Mathpow(2, attempts), maxDelay)

scheduleReconnectPastMax(armed) ==
    LET attempts == reconnectAttempts IN
    IF attempts > config.maxReconnectAttempts
    THEN /\ exhausted' = TRUE
         /\ timers' = armed
         /\ UNCHANGED reconnectAttempts
    ELSE /\ reconnectAttempts' = attempts + 1
         /\ timers' = Append(armed,
                [attempts |-> attempts,
                 delay |-> delay(config.reconnectDelay, attempts)])
         /\ UNCHANGED exhausted

\* scheduleReconnect(account), with armed the timers not yet fired: at the
\* maximum it only logs; otherwise it counts the attempt and arms a timer
\* whose callback is connectAccount.
scheduleReconnect(armed) ==
    LET attempts == reconnectAttempts IN
    IF attempts >= config.maxReconnectAttempts
    THEN /\ exhausted' = TRUE
         /\ timers' = armed
         /\ UNCHANGED reconnectAttempts
    ELSE /\ reconnectAttempts' = attempts + 1
         /\ timers' = Append(armed,
                [attempts |-> attempts,
                 delay |-> delay(config.reconnectDelay, attempts)])
         /\ UNCHANGED exhausted

\* A transport as new Imap(...) leaves it: none of its events emitted yet,
\* and imap.end() not called on it.
NewImap == [ready |-> FALSE, error |-> FALSE, end |-> FALSE, closing |-> FALSE]

\* connectAccount(account): the transport is created, its handlers are set
\* up, connect() is called and the Maps are overwritten; a throw goes to
\* scheduleReconnect.
connectAccount(armed) ==
    IF config.connectThrows
    THEN /\ scheduleReconnect(armed)
         /\ UNCHANGED <<transports, connections, connectionStatus>>
    ELSE /\ transports' = Append(transports, NewImap)
         /\ connections' = Len(transports) + 1
         /\ connectionStatus' =
                [known |-> TRUE, connected |-> FALSE, error |-> ""]
         /\ timers' = armed
         /\ UNCHANGED <<reconnectAttempts, exhausted>>

\* initializeAccounts(): the first connectAccount of the account.
InitializeAccounts ==
    /\ event.kind = "none"
    /\ connectAccount(timers)
    /\ event' = [kind |-> "initialize", transport |-> 0]
    /\ UNCHANGED <<config, restOfSession>>

RemoveAt(q, i) == SubSeq(q, 1, i - 1) \o SubSeq(q, i + 1, Len(q))

TimerFiresIdle(i) ==
    /\ i \in 1 .. Len(timers)
    /\ Len(transports) < MaxTransports
    /\ timers' = RemoveAt(timers, i)
    /\ event' = [kind |-> "timer", transport |-> 0]
    /\ UNCHANGED <<transports, connections, connectionStatus,
                   reconnectAttempts, exhausted, config, restOfSession>>

\* A pending timer fires: its callback is connectAccount(account).
TimerFires(i) ==
    /\ i \in 1 .. Len(timers)
    /\ Len(transports) < MaxTransports
    /\ connectAccount(RemoveAt(timers, i))
    /\ event' = [kind |-> "timer", transport |-> 0]
    /\ UNCHANGED <<config, restOfSession>>

\* The transports that can still emit an event.
Imaps == 1 .. Len(transports)

\* imap.once("ready"): the status becomes connected and the counter is reset;
\* the initial sync it then awaits is the mailbox part of the model.
ReadyKeepsCounter(t) ==
    /\ ~transports[t].ready /\ ~transports[t].error /\ ~transports[t].end
    /\ transports' = [transports EXCEPT ![t].ready = TRUE]
    /\ connectionStatus' = [known |-> TRUE, connected |-> TRUE, error |-> ""]
    /\ event' = [kind |-> "ready", transport |-> t]
    /\ UNCHANGED <<reconnectAttempts, connections, timers, exhausted, config,
                   restOfSession>>

Ready(t) ==
    /\ ~transports[t].ready /\ ~transports[t].error /\ ~transports[t].end
    /\ transports' = [transports EXCEPT ![t].ready = TRUE]
    /\ connectionStatus' = [known |-> TRUE, connected |-> TRUE, error |-> ""]
    /\ reconnectAttempts' = 0
    /\ event' = [kind |-> "ready", transport |-> t]
    /\ UNCHANGED <<connections, timers, exhausted, config, restOfSession>>

\* imap.once("error"): the status becomes disconnected with the message, and
\* a reconnect is scheduled.  A transport emits it before or after ready,
\* and not after its end.
Error(t) ==
    /\ ~transports[t].error /\ ~transports[t].end
    /\ transports' = [transports EXCEPT ![t].error = TRUE]
    /\ connectionStatus' =
           [known |-> TRUE, connected |-> FALSE, error |-> "message"]
    /\ scheduleReconnect(timers)
    /\ event' = [kind |-> "error", transport |-> t]
    /\ UNCHANGED <<connections, config, restOfSession>>

\* imap.once("end"): the status becomes disconnected and a reconnect is
\* scheduled.  The connection may end without an error or after one (a
\* failed login emits error and then closes the socket).
End(t) ==
    /\ ~transports[t].end
    /\ transports' = [transports EXCEPT ![t].end = TRUE]
    /\ connectionStatus' = [known |-> TRUE, connected |-> FALSE, error |-> ""]
    /\ scheduleReconnect(timers)
    /\ event' = [kind |-> "end", transport |-> t]
    /\ UNCHANGED <<connections, config, restOfSession>>

\* getConnectionStatus(): the values of the connectionStatus Map.
getConnectionStatus ==
    IF connectionStatus.known
    THEN {[accountId |-> "a1", connected |-> connectionStatus.connected,
           error |-> connectionStatus.error]}
    ELSE {}

\* The account's configuration: the maximum of attempts is what the
\* environment sets, the delay is the default; connect() either works for
\* this account or throws for it (a port outside the valid range).
SessionConfigs ==
    [maxReconnectAttempts : 1 .. MaxAttempts,
     reconnectDelay : {reconnectDelayDefault},
     connectThrows : BOOLEAN]

SessionInit ==
    /\ index = {}
    /\ pipelines = <<>>
    /\ aiConfigured = TRUE
    /\ aiCall = NoCall
    /\ FanoutIdle
    /\ MailIdle
    /\ \E cfg \in SessionConfigs : Constructed(cfg)

SessionNext ==
    \/ InitializeAccounts
    \/ \E i \in 1 .. Len(timers) : TimerFires(i)
    \/ \E t \in Imaps : Ready(t)
    \/ \E t \in Imaps : Error(t)
    \/ \E t \in Imaps : End(t)

SpecSession == SessionInit /\ [][SessionNext]_vars

\* setTimeout: a timer that stays pending fires.
SpecSessionFair ==
    /\ SessionInit
    /\ [][SessionNext]_vars
    /\ WF_vars(\E i \in 1 .. Len(timers) : TimerFires(i))

\* startIdleMode(imap, account), called by the ready handler once the initial
\* sync has resolved: it arms an interval of 29 minutes that is never cleared.
StartIdleMode(t) ==
    /\ transports[t].ready /\ ~transports[t].error /\ ~transports[t].end
    /\ t \notin watchdog.armed
    /\ watchdog' = [watchdog EXCEPT !.armed = @ \cup {t}]
    /\ UNCHANGED <<index, pipelines, aiConfigured, aiCall, fanoutVars, mailVars,
                   sessionVars, backfill, parsed, app>>

\* How a NOOP of the watchdog can go: its callback gets no error or an
\* error, or send itself throws.
NoopResults == {"ok", "error", "throw"}

\* The interval of transport t fires while imap.state is "authenticated":
\* NOOP is sent, and whatever comes of it is written to the console.
Watchdog(t, result) ==
    /\ t \in watchdog.armed
    /\ transports[t].ready /\ ~transports[t].error /\ ~transports[t].end
    /\ watchdog' = [watchdog EXCEPT !.noop = [transport |-> t, result |-> result]]
    /\ UNCHANGED <<index, pipelines, aiConfigured, aiCall, fanoutVars, mailVars,
                   sessionVars, backfill, parsed, app>>

\* The sessions of an account together with their keep-alive probes.
KeepAliveNext ==
    \/ SessionNext
    \/ \E t \in Imaps : StartIdleMode(t)
    \/ \E t \in Imaps, result \in NoopResults : Watchdog(t, result)

SpecKeepAlive == SessionInit /\ [][KeepAliveNext]_vars

\* disconnect(): imap.end() is called on every entry of the connections Map,
\* which holds the account's latest transport, and the Map is cleared.
disconnect ==
    /\ transports' = IF connections = 0 THEN transports
                     ELSE [transports EXCEPT ![connections].closing = TRUE]
    /\ connections' = 0
    /\ event' = [kind |-> "disconnect", transport |-> 0]
    /\ UNCHANGED <<connectionStatus, reconnectAttempts, timers, exhausted,
                   config, restOfSession>>

\* The sessions of an account and a call of disconnect() at any moment.
ShutdownNext ==
    \/ InitializeAccounts
    \/ \E i \in 1 .. Len(timers) : TimerFires(i)
    \/ \E t \in Imaps : Ready(t)
    \/ \E t \in Imaps : Error(t)
    \/ \E t \in Imaps : End(t)
    \/ disconnect

SpecShutdown == SessionInit /\ [][ShutdownNext]_vars

(* ------------- bootstrap and the accounts side by side ---------------- *)

\* What a step of the process as a whole leaves alone.
restOfApp ==
    <<index, pipelines, aiConfigured, aiCall, fanoutVars, imapVars, backfill,
      parsed>>

\* EMAIL_ACCOUNTS: any list of accounts with distinct ids; email and
\* password say whether the field is a non-empty string.
Accounts == [id : AccountIds, email : BOOLEAN, password : BOOLEAN]
EmailAccountLists ==
    {<<>>} \cup {<<x>> : x \in Accounts}
           \cup {q \in {<<x, y>> : x \in Accounts, y \in Accounts} :
                   q[1].id # q[2].id}

\* if (account.email && account.password)
hasCredentials(account) == account.email /\ account.password

\* The accounts initializeAccounts connects.
Connected(accounts) ==
    {accounts[i].id : i \in {j \in 1 .. Len(accounts) : hasCredentials(accounts[j])}}

\* The transports of all accounts together (the bound of the model).
TotalTransports == Len(app.transports["a1"]) + Len(app.transports["a2"])

\* connectAccount(account) on the Maps of state st: a new transport, the
\* connections entry overwritten, the status set to connected=false.
connectAccountOn(st, a) ==
    [st EXCEPT !.transports[a] = Append(@, [ready |-> FALSE, error |-> FALSE,
                                            end |-> FALSE]),
               !.connections[a] = Len(st.transports[a]) + 1,
               !.connectionStatus[a] =
                    [known |-> TRUE, connected |-> FALSE, error |-> ""]]

scheduleReconnectEveryone(st, a) ==
    [st EXCEPT !.reconnectAttempts = [b \in AccountIds |-> @[b] + 1],
               !.timers[a] = @ + 1]

\* scheduleReconnect(account) on the Maps of state st.
scheduleReconnectOn(st, a) ==
    IF st.reconnectAttempts[a] >= maxReconnectAttemptsDefault
    THEN st
    ELSE [st EXCEPT !.reconnectAttempts[a] = @ + 1, !.timers[a] = @ + 1]

\* bootstrap(): app.initialize() (Elasticsearch, the vector database: a
\* failure is rethrown and the process exits with code 1; then
\* initializeAccounts, whose loop has no await that waits for input) and
\* app.start().
Bootstrap(ok) ==
    /\ app.boot = "starting"
    /\ IF ~ok
       THEN app' = [app EXCEPT !.boot = "exit1",
                               !.event = [kind |-> "bootstrap", account |-> ""]]
       ELSE LET ids == Connected(app.emailAccounts)
                st == [app EXCEPT
                         !.transports = [a \in AccountIds |->
                              IF a \in ids THEN connectAccountOn(app, a).transports[a]
                              ELSE @[a]],
                         !.connections = [a \in AccountIds |->
                              IF a \in ids THEN 1 ELSE @[a]],
                         !.connectionStatus = [a \in AccountIds |->
                              IF a \in ids
                              THEN connectAccountOn(app, a).connectionStatus[a]
                              ELSE @[a]]]
            IN app' = [st EXCEPT !.boot = "listening",
                                 !.event = [kind |-> "bootstrap", account |-> ""]]
    /\ UNCHANGED restOfApp

\* The transports of account a.
ImapsOf(a) == 1 .. Len(app.transports[a])

\* imap.once("ready") of transport t of account a.
ReadyOf(a, t) ==
    /\ app.boot = "listening"
    /\ LET imap == app.transports[a][t] IN ~imap.ready /\ ~imap.error /\ ~imap.end
    /\ app' = [app EXCEPT
            !.transports[a][t].ready = TRUE,
            !.connectionStatus[a] = [known |-> TRUE, connected |-> TRUE, error |-> ""],
            !.reconnectAttempts[a] = 0,
            !.event = [kind |-> "ready", account |-> a]]
    /\ UNCHANGED restOfApp

\* imap.once("error") of transport t of account a.
ErrorOf(a, t) ==
    /\ app.boot = "listening"
    /\ LET imap == app.transports[a][t] IN ~imap.error /\ ~imap.end
    /\ app' = scheduleReconnectOn(
                 [app EXCEPT
                    !.transports[a][t].error = TRUE,
                    !.connectionStatus[a] =
                        [known |-> TRUE, connected |-> FALSE, error |-> "message"],
                    !.event = [kind |-> "error", account |-> a]], a)
    /\ UNCHANGED restOfApp

\* imap.once("end") of transport t of account a.
EndOf(a, t) ==
    /\ app.boot = "listening"
    /\ ~app.transports[a][t].end
    /\ app' = scheduleReconnectOn(
                 [app EXCEPT
                    !.transports[a][t].end = TRUE,
                    !.connectionStatus[a] =
                        [known |-> TRUE, connected |-> FALSE, error |-> ""],
                    !.event = [kind |-> "end", account |-> a]], a)
    /\ UNCHANGED restOfApp

\* A reconnect timer of account a fires: connectAccount(account).
TimerFiresOf(a) ==
    /\ app.boot = "listening"
    /\ app.timers[a] > 0
    /\ TotalTransports < MaxTransports
    /\ app' = connectAccountOn(
                 [app EXCEPT !.timers[a] = @ - 1,
                             !.event = [kind |-> "timer", account |-> a]], a)
    /\ UNCHANGED restOfApp

\* processEmail runs to its end for a message of account a (the first one
\* is recorded): it touches none of the Maps.
ProcessEmailOf(a) ==
    /\ app.boot = "listening"
    /\ \E t \in ImapsOf(a) : app.transports[a][t].ready
    /\ app.processed[a] = 0
    /\ app' = [app EXCEPT !.processed[a] = @ + 1,
                          !.event = [kind |-> "pipeline", account |-> a]]
    /\ UNCHANGED restOfApp

AppInit ==
    /\ index = {}
    /\ pipelines = <<>>
    /\ aiConfigured = TRUE
    /\ aiCall = NoCall
    /\ FanoutIdle
    /\ SessionIdle
    /\ watchdog = NoWatchdog
    /\ backfill = NoBackfill
    /\ parsed = NoHeaders
    /\ inbox = 0 /\ seenFlags = {} /\ sync = "idle" /\ batch = {} /\ ran = {}
    /\ idleMode = FALSE /\ live = NoLive
    /\ \E accounts \in EmailAccountLists : app = NotStarted(accounts)

AppNext ==
    \/ \E ok \in BOOLEAN : Bootstrap(ok)
    \/ \E a \in AccountIds : \E t \in ImapsOf(a) : ReadyOf(a, t)
    \/ \E a \in AccountIds : \E t \in ImapsOf(a) : ErrorOf(a, t)
    \/ \E a \in AccountIds : \E t \in ImapsOf(a) : EndOf(a, t)
    \/ \E a \in AccountIds : TimerFiresOf(a)
    \/ \E a \in AccountIds : ProcessEmailOf(a)

SpecApp == AppInit /\ [][AppNext]_vars

\* Every connect() of the account throws: each timer's connectAccount goes
\* straight back to scheduleReconnect, from counter 0 to the maximum.
ReconnectDelays ==
    {1, 1000, reconnectDelayDefault, 7500, 15000, 30000, 40000, 59999,
     maxDelay, 60001, 120000, 3600000}

BackoffInit ==
    /\ index = {}
    /\ pipelines = <<>>
    /\ aiConfigured = TRUE
    /\ aiCall = NoCall
    /\ FanoutIdle
    /\ MailIdle
    /\ \E d \in ReconnectDelays :
           Constructed([maxReconnectAttempts |-> maxReconnectAttemptsDefault,
                        reconnectDelay |-> d, connectThrows |-> TRUE])

BackoffNext ==
    \/ InitializeAccounts
    \/ \E i \in 1 .. Len(timers) : TimerFires(i)

SpecBackoff == BackoffInit /\ [][BackoffNext]_vars

(* ------------- IMAPService: initial sync and live mode ---------------- *)

\* What a mailbox step leaves alone.
restOfMail ==
    <<index, pipelines, aiConfigured, aiCall, fanoutVars, sessionVars, watchdog,
      backfill, parsed, app>>

\* The ascending sequence of a set of sequence numbers, as imap.search
\* returns its results.
RECURSIVE Ascending(_)
Ascending(S) ==
    IF S = {} THEN <<>>
    ELSE LET top == CHOOSE m \in S : \A x \in S : x <= m
         IN Append(Ascending(S \ {top}), top)

\* imap.search(["ALL"]) and imap.search(["UNSEEN"]) on the open mailbox.
searchALL == Ascending(1 .. inbox)
searchUNSEEN == Ascending((1 .. inbox) \ seenFlags)

\* results.slice(-10): the argument of slice in performInitialSync.
sliceStart == -10

sliceFromFront(q, start) == SubSeq(q, 1, Mathmin(Len(q), -start))

\* Array.prototype.slice(start) with a negative start: from the element
\* max(length + start, 0) to the end.
slice(q, start) ==
    LET from == IF Len(q) + start < 0 THEN 0 ELSE Len(q) + start
    IN SubSeq(q, from + 1, Len(q))

\* What the classifier answers for the message at sequence number m: the
\* mailbox holds, in turn, a message it calls Interested, one it gives a
\* category outside the set, and one for which the call fails.
answerFor(m) ==
    IF m % 3 = 1 THEN Response("object", Str("Interested"))
    ELSE IF m % 3 = 2 THEN Response("object", Str("Other"))
    ELSE Response("throw", Undefined)

\* msg.once("end") for one message: simpleParser, then processEmail.  A parse
\* error rejects the message's promise; processEmail skips a message that is
\* in the index, catches a failed insert, and otherwise stores the record
\* with the category categorizeEmail returns.
pipelineOutcome(parseOk, present, insertOk, resp) ==
    IF ~parseOk THEN "parse_error"
    ELSE IF present THEN "skipped"
    ELSE IF ~insertOk THEN "failed"
    ELSE categorizeEmail(aiConfigured, Body(1), resp).category

rejectsOnFailure(outcome) == outcome \in {"parse_error", "failed"}

\* Whether the message's promise is rejected: the end handler rejects it when
\* simpleParser throws; processEmail has its whole body in a try whose catch
\* only logs, so none of its steps rejects.
rejects(outcome) == outcome = "parse_error"

RanBy(who) == {r.seqno : r \in {x \in ran : x.by = who}}
Persisted == {r \in ran : r.outcome \in validCategories}
Present(m) == \E r \in Persisted : r.seqno = m

\* The ready handler calls performInitialSync, which calls imap.openBox.
PerformInitialSync ==
    /\ sync = "idle"
    /\ sync' = "opening"
    /\ UNCHANGED <<inbox, seenFlags, batch, ran, idleMode, live, restOfMail>>

\* The callback of openBox: an error rejects, otherwise search ALL is issued.
OpenBoxReturns(ok) ==
    /\ sync = "opening"
    /\ sync' = IF ok THEN "searching" ELSE "open_failed"
    /\ UNCHANGED <<inbox, seenFlags, batch, ran, idleMode, live, restOfMail>>

\* The callback of search ALL: an error rejects; no result resolves, and the
\* ready handler goes on to startIdleMode; otherwise the last results are
\* fetched.
SearchAllReturns(ok) ==
    /\ sync = "searching"
    /\ LET seqNos == searchALL IN
       IF ~ok
       THEN sync' = "rejected" /\ UNCHANGED <<batch, idleMode>>
       ELSE IF Len(seqNos) = 0
       THEN sync' = "resolved" /\ idleMode' = TRUE /\ UNCHANGED batch
       ELSE /\ sync' = "fetching"
            /\ batch' = Range(slice(seqNos, sliceStart))
            /\ UNCHANGED idleMode
    /\ UNCHANGED <<inbox, seenFlags, ran, live, restOfMail>>

\* The fetch command fails before a message is delivered.
FetchError ==
    /\ sync = "fetching"
    /\ RanBy("sync") = {}
    /\ sync' = "fetch_failed"
    /\ UNCHANGED <<inbox, seenFlags, batch, ran, idleMode, live, restOfMail>>

\* The batch members whose end handler has not run yet.
Waiting == batch \ RanBy("sync")

\* msg.once("end") of the next message of the batch (the server delivers
\* them in ascending order), with its pipeline run to the end.  A parse
\* error rejects the message's promise.  Promise.all is attached to the
\* promises only by the fetch's end handler: a rejection that settles
\* earlier has no handler, and the runtime the README asks for (Node.js 18+)
\* ends the process on an unhandled rejection; one that settles later is
\* handled by Promise.all.
MessageEnd(parseOk, insertOk, handled) ==
    /\ sync = "fetching"
    /\ Waiting # {}
    /\ LET m == CHOOSE x \in Waiting : \A y \in Waiting : x <= y
           outcome == pipelineOutcome(parseOk, Present(m), insertOk, answerFor(m))
       IN /\ ran' = ran \cup {[seqno |-> m, by |-> "sync", outcome |-> outcome]}
          /\ sync' = IF rejects(outcome) /\ ~handled THEN "exited" ELSE sync
    /\ UNCHANGED <<inbox, seenFlags, batch, idleMode, live, restOfMail>>

\* fetch.once("end") with every message's promise settled: Promise.all
\* rejects if one of them was rejected, and the ready handler then only
\* logs; otherwise the sync resolves and startIdleMode is called.
FetchEnd ==
    /\ sync = "fetching"
    /\ Waiting = {}
    /\ IF \E r \in ran : r.by = "sync" /\ rejects(r.outcome)
       THEN sync' = "rejected" /\ UNCHANGED idleMode
       ELSE sync' = "resolved" /\ idleMode' = TRUE
    /\ UNCHANGED <<inbox, seenFlags, batch, ran, live, restOfMail>>

\* The mailbox when the transport becomes ready: any number of messages up
\* to the bound, none fetched.
SyncInit ==
    /\ index = {}
    /\ pipelines = <<>>
    /\ aiConfigured = TRUE
    /\ aiCall = NoCall
    /\ FanoutIdle
    /\ SessionIdle
    /\ watchdog = NoWatchdog
    /\ backfill = NoBackfill
    /\ parsed = NoHeaders
    /\ app = NoApp
    /\ inbox \in 0 .. MaxInbox
    /\ seenFlags = {}
    /\ sync = "idle"
    /\ batch = {}
    /\ ran = {}
    /\ idleMode = FALSE
    /\ live = NoLive

SyncNext ==
    \/ PerformInitialSync
    \/ \E ok \in BOOLEAN : OpenBoxReturns(ok)
    \/ \E ok \in BOOLEAN : SearchAllReturns(ok)
    \/ FetchError
    \/ \E parseOk \in BOOLEAN, insertOk \in BOOLEAN, handled \in BOOLEAN :
          MessageEnd(parseOk, insertOk, handled)
    \/ FetchEnd

SpecSync == SyncInit /\ [][SyncNext]_vars

\* New messages reach the open mailbox: the transport emits "mail" with
\* their number, and the mail handler issues search UNSEEN.
Arrive(k) ==
    /\ sync \in {"searching", "fetching", "resolved", "rejected", "fetch_failed"}
    /\ Cardinality(live.arrived) + k <= MaxArrivals
    /\ inbox' = inbox + k
    /\ live' = [live EXCEPT !.searches = @ + 1,
                            !.arrived = @ \cup (inbox + 1 .. inbox + k)]
    /\ UNCHANGED <<seenFlags, sync, batch, ran, idleMode, restOfMail>>

\* Another client of the account reads a message: the server sets \Seen.
MarkSeen(m) ==
    /\ m \in (1 .. inbox) \ seenFlags
    /\ seenFlags' = seenFlags \cup {m}
    /\ UNCHANGED <<inbox, sync, batch, ran, idleMode, live, restOfMail>>

\* The callback of search UNSEEN in the mail handler: an error or an empty
\* result returns; otherwise the last result alone is fetched and its
\* pipeline runs.  A parse error rejects fetchEmailsBySeqNo inside the async
\* callback, where nothing handles it: the process ends.
MailSearchReturns(ok, parseOk, insertOk) ==
    /\ sync # "exited"
    /\ live.searches > 0
    /\ LET seqNos == searchUNSEEN IN
       IF ~ok
       THEN /\ live' = [live EXCEPT !.searches = @ - 1, !.searchFailed = TRUE]
            /\ UNCHANGED <<ran, sync>>
       ELSE IF Len(seqNos) = 0
       THEN /\ live' = [live EXCEPT !.searches = @ - 1]
            /\ UNCHANGED <<ran, sync>>
       ELSE LET latestSeqNo == seqNos[Len(seqNos)]
                outcome == pipelineOutcome(parseOk, Present(latestSeqNo),
                                           insertOk, answerFor(latestSeqNo))
            IN /\ live' = [live EXCEPT !.searches = @ - 1]
               /\ ran' = ran \cup {[seqno |-> latestSeqNo, by |-> "live",
                                     outcome |-> outcome]}
               /\ sync' = IF rejects(outcome) THEN "exited" ELSE sync
    /\ UNCHANGED <<inbox, seenFlags, batch, idleMode, restOfMail>>

\* A session from its ready event on: the initial sync of a small mailbox,
\* and the messages that arrive while the mailbox is open.
LiveInit ==
    /\ index = {}
    /\ pipelines = <<>>
    /\ aiConfigured = TRUE
    /\ aiCall = NoCall
    /\ FanoutIdle
    /\ SessionIdle
    /\ watchdog = NoWatchdog
    /\ backfill = NoBackfill
    /\ parsed = NoHeaders
    /\ app = NoApp
    /\ inbox \in 0 .. 1
    /\ seenFlags = {}
    /\ sync = "idle"
    /\ batch = {}
    /\ ran = {}
    /\ idleMode = FALSE
    /\ live = NoLive

LiveNext ==
    \/ PerformInitialSync
    \/ \E ok \in BOOLEAN : OpenBoxReturns(ok)
    \/ \E ok \in BOOLEAN : SearchAllReturns(ok)
    \/ FetchError
    \/ \E parseOk \in BOOLEAN, insertOk \in BOOLEAN, handled \in BOOLEAN :
          MessageEnd(parseOk, insertOk, handled)
    \/ FetchEnd
    \/ \E k \in 1 .. 2 : Arrive(k)
    \/ \E m \in 1 .. inbox : MarkSeen(m)
    \/ \E ok \in BOOLEAN, parseOk \in BOOLEAN, insertOk \in BOOLEAN :
          MailSearchReturns(ok, parseOk, insertOk)

SpecLive == LiveInit /\ [][LiveNext]_vars

(* ====================== the claims, one by one ======================== *)

\* A transport-level message identifier (not one generated by uuidv4).
IsTransportId(m) == m # <<>> /\ Head(m) # "#"

\* The non-empty transport identifiers of the mailboxes.
TransportIds == {trim(m.raw) : m \in Mailbox} \ {<<>>}

\* The classification collaborator was invoked by run p.
Invoked(p) == pipelines[p].outcome \in {"failed", "answered"}

\* C1: after any interleaving of pipelines the index holds at most one record
\* for any non-empty transport message identifier.
C1_UniqueMessageId ==
    \A d1, d2 \in index :
        (d1.messageId = d2.messageId /\ IsTransportId(d1.messageId)) => d1 = d2

\* C2: a run whose non-empty trimmed identifier was already present in the
\* index when processEmail started performs no insert, no classification
\* call, no category update and no fanout.
C2_PresentIsSkipped ==
    \A p \in Runs :
        pipelines[p].present =>
            /\ ~pipelines[p].inserted
            /\ pipelines[p].outcome = "none"
            /\ ~pipelines[p].updated
            /\ ~pipelines[p].fanned

\* C3: for any non-empty transport identifier the classification collaborator
\* is invoked at most once and the webhook fanout is triggered at most once.
C3_AtMostOnce ==
    \A m \in TransportIds :
        /\ Cardinality({p \in Runs : trim(pipelines[p].raw) = m /\ Invoked(p)}) <= 1
        /\ Cardinality({p \in Runs : trim(pipelines[p].raw) = m /\ pipelines[p].fanned}) <= 1

\* The answers for which categorizeEmail must degrade: the call throws or
\* times out, the text is not JSON (or not an object), the category field is
\* missing, or the category is outside the fixed set.
Degraded(resp) ==
    \/ resp.kind \in {"throw", "timeout", "invalid", "null"}
    \/ resp.category = Undefined
    \/ resp.category \notin {Str(c) : c \in validCategories}

\* C4: categorizeEmail never throws and returns one of the six categories for
\* every input and every collaborator outcome; unconfigured, and for each of
\* the degraded answers, it returns Uncategorized.
C4_AlwaysOneOfSix ==
    /\ aiCall.st # "threw"
    /\ aiCall.st = "returned" =>
        /\ aiCall.category \in validCategories
        /\ (~aiConfigured \/ ~aiCall.body.isString \/ Degraded(aiCall.resp))
                => aiCall.category = "Uncategorized"

\* C4 witness: a configured classifier answered with a category outside the
\* set and the call returned Uncategorized.
C4_Witness ==
    /\ aiConfigured
    /\ aiCall.st = "returned"
    /\ aiCall.resp = Response("object", Str("Other"))
    /\ aiCall.category = "Uncategorized"

\* C5: when the classification collaborator timed out or failed for a
\* message (or has not answered), its record is stored with category
\* Uncategorized and no fanout was triggered for it.
C5_FailedClassifierUncategorized ==
    \A p \in Runs :
        (pipelines[p].outcome = "failed" \/ pipelines[p].pc = "classify") =>
            /\ ~pipelines[p].fanned
            /\ storedDoc(p) # {}
            /\ \A d \in storedDoc(p) : d.aiCategory = "Uncategorized"

\* C5 witness: a run whose classifier call failed has completed.
C5_Witness ==
    \E p \in Runs : pipelines[p].outcome = "failed" /\ pipelines[p].pc = "done"

\* C6: the fanout is triggered only for classification result Interested and
\* only after Interested has been persisted on the record; for every other
\* category, and when the category update fails, there is no fanout.
C6_FanoutOnlyInterestedPersisted ==
    \A p \in Runs :
        /\ pipelines[p].fanned =>
            /\ pipelines[p].category = "Interested"
            /\ pipelines[p].updated
            /\ \E d \in storedDoc(p) : d.aiCategory = "Interested"
        /\ (pipelines[p].category # "Interested" \/ pipelines[p].pc = "failed")
                => ~pipelines[p].fanned

\* C6 witness: one run has triggered the fanout and completed, another was
\* classified Interested and its category update failed.
C6_Witness ==
    \E p, q \in Runs :
        /\ pipelines[p].fanned /\ pipelines[p].pc = "done"
        /\ pipelines[q].category = "Interested" /\ pipelines[q].pc = "failed"

\* C7: whatever the destinations answer, a destination is left without a
\* delivery attempt only if it would be left without one when every POST
\* succeeds (an interestedUrls entry while no generic URL is set); no
\* destination is attempted twice, only configured destinations are
\* attempted, and the reported success count exceeds neither the reported
\* total nor the number of configured destinations.
C7_IndependentDelivery ==
    LET dests == ConfiguredDests(webhooks) IN
    /\ \A u \in Urls : posts[u] <= 1 /\ (posts[u] > 0 => u \in dests)
    /\ FanoutQuiescent =>
        \A d \in dests :
            posts[d] = 0 => (webhooks.generic = "" /\ d # webhooks.slack)
    /\ reported # <<>> =>
        /\ reported[1] <= reported[2]
        /\ reported[2] <= Cardinality(dests)

\* C7 witness: Slack failed, the primary generic URL was rate-limited, and
\* the other URLs were still attempted and counted.
C7_Witness ==
    /\ FanoutQuiescent
    /\ webhooks.slack # "" /\ answers[SlackUrl] = "error"
    /\ webhooks.generic # "" /\ answers[GenericUrl] = "rate-limit"
    /\ posts["u1"] = 1 /\ posts["u2"] = 1
    /\ reported = <<1, 2>>

\* C8: with exactly two configured destinations of which one answers a POST
\* with a rate limit and the other succeeds, the other receives the payload
\* and the reported result is 1 success out of 2 destinations.
C8_OneOfTwo ==
    LET dests == ConfiguredDests(webhooks) IN
    \A d1, d2 \in dests :
        (/\ FanoutQuiescent
         /\ dests = {d1, d2} /\ d1 # d2
         /\ posts[d1] > 0 /\ answers[d1] = "rate-limit"
         /\ answers[d2] = "ok")
            => /\ posts[d2] > 0
               /\ reported = <<1, 2>>

\* C9: triggerInterestedWebhooks never rejects, whatever the destinations
\* answer, and the processEmail run awaiting it completes normally.
C9_TriggerNeverRejects ==
    /\ trigger # "rejected"
    /\ caller # "caught"

\* C9 witness: the Slack task rejected, a broadcast POST failed, and the
\* caller completed normally.
C9_Witness ==
    /\ caller = "completed"
    /\ slackTask = "rejected"
    /\ genericTask = "resolved"
    /\ \E u \in broadcastUrls(webhooks) : answers[u] = "timeout"

\* C10: once the fanout triggered has come to rest, a delivery attempt has
\* been made to every configured destination.
C10_EveryDestinationAttempted ==
    FanoutQuiescent => \A d \in ConfiguredDests(webhooks) : posts[d] > 0

\* C11: the timer that scheduleReconnect arms when the counter is k has the
\* delay min(base * 2^k, cap), for every k from 0 to the maximum; from one
\* attempt to the next the delay never decreases, and it increases as long
\* as the cap has not been reached.
C11_BackoffDelay ==
    [][\A n \in Range(timers') :
          LET base == config.reconnectDelay
              k == n.attempts
          IN /\ k \in 0 .. config.maxReconnectAttempts - 1
             /\ n.delay = IF base * 2^k < 60000 THEN base * 2^k ELSE 60000
             /\ \A o \in Range(timers) :
                    k = o.attempts + 1 =>
                        /\ o.delay <= n.delay
                        /\ o.delay < 60000 => o.delay < n.delay]_vars

\* With the default base the last attempt before the maximum is armed, at
\* the cap.
C11_Witness ==
    /\ config.reconnectDelay = 5000
    /\ \E n \in Range(timers) :
           n.attempts = config.maxReconnectAttempts - 1 /\ n.delay = 60000

\* C12: right after the ready handler the account's attempt counter is 0,
\* and whenever the Connection State says connected the counter is 0.
C12_ConnectedMeansZero ==
    /\ event.kind = "ready" =>
           connectionStatus.connected /\ reconnectAttempts = 0
    /\ connectionStatus.connected => reconnectAttempts = 0

\* A reconnect succeeded: a transport created by a timer became ready.
C12_Witness ==
    /\ event.kind = "ready"
    /\ event.transport >= 2
    /\ connectionStatus.connected

\* C13: once scheduleReconnect has found the counter at the configured
\* maximum, the account is left alone: no timer is armed, none fires and no
\* new transport is created in any later step.
C13_StopsPermanently ==
    [][exhausted =>
          /\ timers' = timers
          /\ Len(transports') = Len(transports)]_vars

\* C14: once the reconnect attempts are exhausted, what getConnectionStatus
\* reports for the account says not connected, in that state and in every
\* later one.
C14_ExhaustedStaysDown ==
    exhausted => \A r \in getConnectionStatus : ~r.connected

\* A transport that is connecting or connected: it has neither failed nor
\* ended.
Live(t) == ~transports[t].error /\ ~transports[t].end

\* C15: the account never has two sessions connecting or connected at the
\* same time, whatever error, end and timer events occur.
C15_AtMostOneSession ==
    Cardinality({t \in Imaps : Live(t)}) <= 1

\* C16: once a newer transport exists, an event of an older transport of the
\* account (ready, error, end) leaves the Connection State, the Reconnect
\* Counter and the timers as they are.
C16_OldSessionFenced ==
    [][(/\ event'.kind \in {"ready", "error", "end"}
        /\ event'.transport < Len(transports))
       => /\ connectionStatus' = connectionStatus
          /\ reconnectAttempts' = reconnectAttempts
          /\ timers' = timers]_vars

\* The min(n, cap) highest sequence numbers of a folder of n messages.
MostRecent(n, cap) == {m \in 1 .. n : m > n - cap}

C18_SyncsLastThirty ==
    sync = "resolved" => RanBy("sync") = MostRecent(inbox, 30)

\* The messages of the batch whose pipeline failed: parse error or a failed
\* pipeline step.
FailedInBatch ==
    {r.seqno : r \in {x \in ran : x.by = "sync" /\ x.outcome \in {"parse_error", "failed"}}}

\* C19: a parse error or a failed pipeline step of one message of a batch
\* stops no other message of the batch: when nothing more happens to the
\* batch, every message of it has run its pipeline and all but the failing
\* ones are stored.
C19_FailureSkipsOnlyItself ==
    (sync \in {"resolved", "rejected", "exited"} /\ batch # {})
        => /\ RanBy("sync") = batch
           /\ {r.seqno : r \in Persisted} = batch \ FailedInBatch

\* Live mode at rest: the initial sync has completed, every search of the
\* mail handler has returned, and no search and no pipeline has failed.
LiveAtRest ==
    /\ sync = "resolved"
    /\ live.searches = 0
    /\ ~live.searchFailed
    /\ \A r \in ran : r.outcome \notin {"parse_error", "failed"}

\* C20: after the new-message notifications the pipeline has been run on
\* every message that arrived in the folder, also when one notification
\* announced several messages or several unseen messages existed: with the
\* mail handler at rest no arrived message is left without a pipeline run.
C20_EveryNewMessageRuns ==
    LiveAtRest => live.arrived \subseteq {r.seqno : r \in ran}

\* C21: within one session no message position goes through the pipeline
\* twice, whatever the initial sync and the new-message notifications do:
\* the runs recorded for one sequence number are a single run.
C21_NoPositionTwice ==
    \A r1 \in ran, r2 \in ran : r1.seqno = r2.seqno => r1 = r2

\* C22: when the deduplication lookup itself fails, the run is aborted and
\* inserts nothing.  A lookup for an identifier that is in the index can
\* only come back without a hit when the search failed: such a run never
\* goes on to the insert.
C22_LookupFailureFailsClosed ==
    [][\A p \in Runs :
          (/\ pipelines[p].pc = "lookup"
           /\ \E d \in index : d.messageId = trim(pipelines[p].raw))
          => pipelines'[p].pc # "insert"]_vars

\* The order of the steps of one run, as moves of its position.
StepOrder ==
    {<<"lookup", "skipped">>, <<"lookup", "insert">>,
     <<"insert", "classify">>, <<"insert", "failed">>,
     <<"classify", "update">>, <<"classify", "failed">>,
     <<"update", "notify">>, <<"update", "done">>, <<"update", "failed">>,
     <<"notify", "done">>, <<"notify", "failed">>}

\* C23: a run that is not skipped does its steps in the order lookup, insert
\* of the record as Uncategorized, classification, category update, fanout
\* (only for Interested), each at most once and none before the one before
\* it has completed.
C23_StepsInOrder ==
    [][\A p \in Runs :
          LET old == pipelines[p]
              new == pipelines'[p]
          IN /\ new.pc # old.pc => <<old.pc, new.pc>> \in StepOrder
             /\ (new.inserted /\ ~old.inserted) =>
                    /\ old.pc = "insert"
                    /\ old.outcome = "none" /\ ~old.updated /\ ~old.fanned
                    /\ \E d \in index' \ index :
                          d.id = uuidv4(p) /\ d.aiCategory = "Uncategorized"
             /\ (new.outcome # "none" /\ old.outcome = "none") =>
                    old.pc = "classify" /\ old.inserted /\ ~old.updated
             /\ (new.updated /\ ~old.updated) =>
                    old.pc = "update" /\ old.outcome # "none" /\ ~old.fanned
             /\ (new.fanned /\ ~old.fanned) =>
                    new.updated /\ old.category = "Interested"]_vars

\* A run with a transport identifier went through every step, the fanout
\* included.
C23_Witness ==
    \E p \in Runs :
        /\ trim(pipelines[p].raw) # <<>>
        /\ pipelines[p].pc = "done"
        /\ pipelines[p].inserted /\ pipelines[p].updated /\ pipelines[p].fanned

\* C24: processEmail never rejects.  A failed insert, update, classifier or
\* fanout for a message stays inside that message's run: the step that
\* records the failure leaves the sync, the Connection State, the Reconnect
\* Counter and the timers as they are, and the sync is rejected or the
\* process ended only when a message could not be parsed.
C24_PipelineFailureContained ==
    [][/\ \A r \in ran' \ ran :
             r.outcome = "failed" =>
                 /\ sync' = sync
                 /\ connectionStatus' = connectionStatus
                 /\ reconnectAttempts' = reconnectAttempts
                 /\ timers' = timers
       /\ (sync = "fetching" /\ sync' = "rejected")
             => \E r \in ran' : r.by = "sync" /\ r.outcome = "parse_error"
       /\ (sync' = "exited" /\ sync # "exited")
             => \E r \in ran' : r.outcome = "parse_error"]_vars

\* A message's insert failed during the initial sync, and the sync resolved
\* with the other messages stored and live mode started.
C24_Witness ==
    /\ sync = "resolved"
    /\ idleMode
    /\ \E r \in ran : r.by = "sync" /\ r.outcome = "failed"
    /\ \E r \in ran : r.by = "live" /\ r.outcome = "failed"

\* C25: a message whose Message-ID is absent or empty after trimming is
\* never looked up and never skipped, and the record a run stores for it has
\* the run's freshly generated identifier as its messageId, which no other
\* record of the index carries.
C25_NoIdNeverSkipped ==
    \A p \in Runs :
        (pipelines[p].pc # "parse_error" /\ trim(pipelines[p].raw) = <<>>) =>
            /\ pipelines[p].pc \notin {"lookup", "skipped"}
            /\ ~pipelines[p].present
            /\ pipelines[p].inserted =>
                  \E d \in index :
                      /\ d.id = uuidv4(p)
                      /\ d.messageId = uuidv4(p)
                      /\ \A e \in index \ {d} : e.messageId # d.messageId

\* The same message without a usable Message-ID was processed twice, once
\* with an empty header and once with a blank one, and both runs stored a
\* record of their own.
C25_Witness ==
    /\ Len(pipelines) = 2
    /\ \A p \in Runs : trim(pipelines[p].raw) = <<>> /\ pipelines[p].inserted
    /\ pipelines[1].raw # pipelines[2].raw
    /\ Cardinality(index) = 2

\* C27: in every reachable state the account's attempt counter is an
\* integer between 0 and the configured maximum, both included.
C27_CounterInRange ==
    /\ reconnectAttempts \in Int
    /\ 0 <= reconnectAttempts
    /\ reconnectAttempts <= config.maxReconnectAttempts

\* The counter stands at the maximum and a further failure was refused by
\* scheduleReconnect.
C27_Witness ==
    /\ config.maxReconnectAttempts > 1
    /\ reconnectAttempts = config.maxReconnectAttempts
    /\ exhausted
    /\ event.kind \in {"error", "end"}

\* C28: one failure of a session counts once: at most one reconnect timer of
\* the account is pending at any time, and the end event of a transport
\* that has already reported an error neither counts a further attempt nor
\* arms a further timer.
C28_OneTimerPerFailure ==
    [][/\ Len(timers') <= 1
       /\ \A t \in Imaps :
             (transports[t].error /\ ~transports[t].end /\ transports'[t].end)
                 => reconnectAttempts' = reconnectAttempts /\ timers' = timers]_vars

C29_SyncEndsLiveOrError ==
    sync \in {"resolved", "rejected", "open_failed", "fetch_failed"} =>
        \/ idleMode
        \/ reconnectAttempts > 0
        \/ timers # <<>>
        \/ exhausted
        \/ (connectionStatus.known /\ ~connectionStatus.connected)

\* C30: a failed keep-alive probe of a live session is treated as a
\* connection error: the step in which the NOOP fails leaves the account's
\* status at connected=false and has invoked the reconnection scheduler (a
\* timer is armed, or the maximum of attempts is found reached).
C30_NoopFailureIsConnectionError ==
    [][(/\ watchdog'.noop # watchdog.noop
        /\ watchdog'.noop.result \in {"error", "throw"})
           => /\ connectionStatus'.known /\ ~connectionStatus'.connected
              /\ (Len(timers') > Len(timers) \/ exhausted')]_vars

\* C31: new-message notifications are handled only in live mode: the mail
\* handler issues its search only when the initial sync has resolved and
\* startIdleMode has been called, and no live fetch runs a pipeline while
\* the batch of the initial sync is being fetched.
C31_LiveOnlyAfterSync ==
    [][/\ live'.searches > live.searches => (sync = "resolved" /\ idleMode)
       /\ \A r \in ran' \ ran : r.by = "live" => sync # "fetching"]_vars

\* C32: the category of a persisted record is changed only by the update
\* step of the pipeline run that stored it, which happens once, after the
\* run's classification; no other operation changes it, and none changes it
\* again afterwards.
C32_CategoryMutatedOnce ==
    [][\A p \in Runs :
          LET old == storedDoc(p)
              new == {d \in index' : d.id = uuidv4(p)}
          IN  (old # {} /\ new # old) =>
                  /\ pipelines[p].pc = "update"
                  /\ ~pipelines[p].updated
                  /\ pipelines'[p].updated]_vars

\* C33: the to, cc and from fields of a record the normalizer has produced
\* contain no empty string: entries that are empty or lack an address are
\* dropped, so to and cc hold addresses only, and from is an address
\* whenever the From header holds one.
C33_NoEmptyAddress ==
    parsed.st = "normalized" =>
        /\ "" \notin Range(parsed.doc.to)
        /\ "" \notin Range(parsed.doc.cc)
        /\ (\E i \in 1 .. Len(parsed.from.items) :
               \E j \in 1 .. Len(parsed.from.items[i]) :
                   Truthy(parsed.from.items[i][j]))
              => parsed.doc.from # ""

\* C34: a call of disconnect() instructs every session that was started and
\* has neither failed nor ended to close its transport, the sessions that a
\* later session of the account has superseded included, and leaves the
\* connections Map empty.
C34_DisconnectClosesEverySession ==
    [][event'.kind = "disconnect" =>
          /\ connections' = 0
          /\ \A t \in Imaps : Live(t) => transports'[t].closing]_vars

C35_NoAccountsIsFatal ==
    app.boot = "listening" => Connected(app.emailAccounts) # {}

\* C36: every event of account A (a timer's connect, ready, error, end, a
\* pipeline run) leaves the Connection State and the Reconnect Counter of
\* every other account as they were.
C36_OtherAccountsUntouched ==
    [][\A a \in AccountIds, b \in AccountIds :
          (app'.event.account = a /\ b # a) =>
              /\ app'.connectionStatus[b] = app.connectionStatus[b]
              /\ app'.reconnectAttempts[b] = app.reconnectAttempts[b]]_vars

\* Two accounts run side by side: a1 has failed and reconnected once and is
\* waiting, a2 is connected at counter 0 and has processed a message.
C36_Witness ==
    /\ app.reconnectAttempts["a1"] = 1
    /\ Len(app.transports["a1"]) = 2
    /\ ~app.connectionStatus["a1"].connected
    /\ app.connectionStatus["a2"].connected
    /\ app.reconnectAttempts["a2"] = 0
    /\ app.processed["a2"] > 0
    /\ app.event.account = "a1"

\* C38: the armed keep-alive intervals never outnumber the accounts (one
\* account here), and no interval stays armed for a transport that has
\* failed or ended.
C38_WatchdogsBounded ==
    /\ Cardinality(watchdog.armed) <= 1
    /\ \A t \in watchdog.armed : ~transports[t].error /\ ~transports[t].end

====
